---- MODULE Spec2Model ----
(***************************************************************************)
(* State-machine model of three react-uwp widgets:                         *)
(*   Slider      src/src/Slider/index.tsx                                  *)
(*   CommandBar  src/unnamed/part_000                                      *)
(*   Image       src/components/Image/index.tsx                            *)
(* The widgets are independent; each has its own specification             *)
(* (SliderSpec, CommandBarSpec, ImageSpec) in which the other two widgets  *)
(* are mounted with fixed props and receive no events.                     *)
(*                                                                         *)
(* JavaScript numbers are modelled as exact rationals <<n, d>> (d > 0, in  *)
(* lowest terms); `undefined` is the string "undefined"; the tri-state     *)
(* boolean|undefined values of CommandBar are "true"/"false"/"undefined".  *)
(* React is React 15 (Image uses React.PropTypes): setState inside a React *)
(* event handler is batched to the end of the handler, setState inside a   *)
(* native window listener re-renders synchronously; a direct assignment to *)
(* this.state never re-renders.                                            *)
(***************************************************************************)
EXTENDS Integers, Sequences, FiniteSets, TLC

VARIABLES
    \* ---- Slider ----
    sliderProps,        \* minValue, maxValue, initValue, showValueInfo, numberToFixed, unit
    rect,               \* getBoundingClientRect data: left, width (rootElm), controllerWidth (controllerElm)
    currValue,          \* this.state.currValue
    valueRatio,         \* this.state.valueRatio
    hovered,            \* this.state.hovered
    dragging,           \* this.state.dragging
    originBodyStyle,    \* this.originBodyStyle
    bodyStyle,          \* document.body.style
    listeners,          \* event types with a slider listener registered on window
    label,              \* the value label as last rendered
    onChangeValueCalls, \* values passed to props.onChangeValue by the latest handler
    lastEvent,          \* history: the event handled last
    lastX,              \* history: clientX of the last mousedown/mousemove
    downSinceUp,        \* history: a mousedown was handled and no mouseup since
    styleBeforeDown,    \* history: document.body.style just before the mousedown that began the drag
    \* ---- CommandBar ----
    commandBarProps,    \* expanded, isMinimal, labelPosition, primaryCommands
    currExpanded,       \* this.state.currExpanded
    rootHeight,         \* height of the bar (styles.root) as last rendered
    setStateCalls,      \* number of setState calls made by the latest operation
    cbLastOp,           \* history: latest operation and its argument
    cbPrev,             \* history: currExpanded and props.expanded before the latest operation
    \* ---- Image ----
    imageProps,         \* src, placeholder, isLazyLoad, useDivContainer
    showEmptyImage,     \* this.state.showEmptyImage
    output,             \* what render() returned last
    lazyVisible,        \* ReactLazyLoad has swapped its placeholder for the child
    imgLastOp,          \* history: latest operation
    failedSrc           \* history: the src whose load failed, or "none"

sliderVars == <<sliderProps, rect, currValue, valueRatio, hovered, dragging,
                originBodyStyle, bodyStyle, listeners, label, onChangeValueCalls,
                lastEvent, lastX, downSinceUp, styleBeforeDown>>
commandBarVars == <<commandBarProps, currExpanded, rootHeight, setStateCalls, cbLastOp, cbPrev>>
imageVars == <<imageProps, showEmptyImage, output, lazyVisible, imgLastOp, failedSrc>>
vars == <<sliderVars, commandBarVars, imageVars>>
notSlider == <<commandBarVars, imageVars>>
notCommandBar == <<sliderVars, imageVars>>
notImage == <<sliderVars, commandBarVars>>

----------------------------------------------------------------------------
(* Exact rational arithmetic for JavaScript numbers.                       *)

Abs(i) == IF i < 0 THEN -i ELSE i

RECURSIVE GCD(_, _)
GCD(a, b) == IF b = 0 THEN a ELSE GCD(b, a % b)

\* n / d, d # 0, in lowest terms with a positive denominator
Rat(n, d) ==
    LET g == GCD(Abs(n), Abs(d))
        s == IF d < 0 THEN -1 ELSE 1
    IN  <<(s * n) \div g, (s * d) \div g>>

FromInt(i) == <<i, 1>>
RatAdd(a, b) == Rat(a[1] * b[2] + b[1] * a[2], a[2] * b[2])
RatSub(a, b) == Rat(a[1] * b[2] - b[1] * a[2], a[2] * b[2])
RatMul(a, b) == Rat(a[1] * b[1], a[2] * b[2])
RatLT(a, b) == a[1] * b[2] < b[1] * a[2]
RatLE(a, b) == a[1] * b[2] <= b[1] * a[2]

RECURSIVE Pow10(_)
Pow10(f) == IF f = 0 THEN 1 ELSE 10 * Pow10(f - 1)

----------------------------------------------------------------------------
(* Bounds and input sets.                                                  *)

MaxX == 6                      \* pointer clientX ranges over 0..MaxX

\* <<minValue, maxValue, initValue>>; <<0, 100, 50>> is defaultProps
Values == {<<0, 100, 50>>, <<10, 20, 15>>, <<10, 20, 20>>, <<-4, 4, -4>>}
\* <<showValueInfo, numberToFixed>>; <<FALSE, 0>> is defaultProps
LabelConfigs == {<<FALSE, 0>>, <<TRUE, 0>>, <<TRUE, 1>>}
\* rootElm left/width and controllerElm width (controllerWidth default 8)
Rects == {[left |-> 1, width |-> 12, controllerWidth |-> 8],
          [left |-> 0, width |-> 13, controllerWidth |-> 8]}
\* inline styles the page may have on document.body
PageStyles == {[userSelect |-> "", msUserSelect |-> "", webkitUserSelect |-> "", cursor |-> ""],
               [userSelect |-> "text", msUserSelect |-> "text", webkitUserSelect |-> "text", cursor |-> "wait"]}

Xs == 0..MaxX

DragStyle == [userSelect |-> "none", msUserSelect |-> "none",
              webkitUserSelect |-> "none", cursor |-> "default"]

\* Object.assign(target, source): every key of source overwrites target's
ObjectAssign(target, source) ==
    [k \in DOMAIN target \cup DOMAIN source |->
        IF k \in DOMAIN source THEN source[k] ELSE target[k]]

----------------------------------------------------------------------------
(* Slider                                                                  *)

SliderPropsSet ==
    { [minValue |-> v[1], maxValue |-> v[2], initValue |-> v[3],
       showValueInfo |-> l[1], numberToFixed |-> l[2], unit |-> "%"] :
        v \in Values, l \in LabelConfigs }

\* Number.prototype.toFixed(f) followed by the unit: the digits are
\* round(|v| * 10^f) (ties to the larger integer), shown with f decimals.
toFixedLabel(v, f, unit) ==
    LET a == <<Abs(v[1]), v[2]>>
        scaled == (2 * a[1] * Pow10(f) + a[2]) \div (2 * a[2])
    IN  [shown |-> TRUE, neg |-> v[1] < 0, digits |-> scaled, decimals |-> f, unit |-> unit]

NoLabel == [shown |-> FALSE, neg |-> FALSE, digits |-> 0, decimals |-> 0, unit |-> ""]

\* render(), the value label only
renderLabel(props, value) ==
    IF props.showValueInfo
    THEN toFixedLabel(value, props.numberToFixed, props.unit)
    ELSE NoLabel

\* state initialiser
initValueRatio(props) == Rat(props.initValue, props.maxValue - props.minValue)

SliderInitWith(props, r, style) ==
    /\ sliderProps = props
    /\ rect = r
    /\ currValue = FromInt(props.initValue)
    /\ valueRatio = initValueRatio(props)
    /\ hovered = FALSE
    /\ dragging = FALSE
    /\ originBodyStyle = style
    /\ bodyStyle = style
    /\ listeners = {}
    /\ label = renderLabel(props, FromInt(props.initValue))
    /\ onChangeValueCalls = <<>>
    /\ lastEvent = "init"
    /\ lastX = 0
    /\ downSinceUp = FALSE
    /\ styleBeforeDown = style

SliderInit ==
    \E props \in SliderPropsSet, r \in Rects, style \in PageStyles :
        SliderInitWith(props, r, style)

\* clampRatio without the upper clamp
clampRatio_NoUpper(q) == IF RatLT(q, FromInt(0)) THEN FromInt(0) ELSE q

\* valueRatio < 0 ? 0 : (valueRatio > 1 ? 1 : valueRatio)
clampRatio(q) ==
    IF RatLT(q, FromInt(0)) THEN FromInt(0)
    ELSE IF RatLT(FromInt(1), q) THEN FromInt(1) ELSE q

\* (mouseLeft - left) / (width - controllerWidth), clamped
ratioAt(x) == clampRatio(Rat(x - rect.left, rect.width - rect.controllerWidth))

\* minValue + (maxValue - minValue) * valueRatio
valueAt(q) ==
    RatAdd(FromInt(sliderProps.minValue),
           RatMul(FromInt(sliderProps.maxValue - sliderProps.minValue), q))

\* setValueByEvent after its dragging test: this.state is assigned directly
\* (no setState, no re-render) and props.onChangeValue is called
setValueByEvent(x) ==
    /\ valueRatio' = ratioAt(x)
    /\ currValue' = valueAt(ratioAt(x))
    /\ onChangeValueCalls' = <<valueAt(ratioAt(x))>>
    /\ lastX' = x

addListeners == listeners \cup {"mousemove", "mouseup"}

\* onMouseDown of the track
handelMouseDown(x) ==
    /\ bodyStyle' = ObjectAssign(bodyStyle, DragStyle)
    /\ listeners' = addListeners
    /\ setValueByEvent(x)
    /\ lastEvent' = "mousedown"
    /\ downSinceUp' = TRUE
    /\ styleBeforeDown' = IF downSinceUp THEN styleBeforeDown ELSE bodyStyle
    /\ UNCHANGED <<sliderProps, rect, hovered, dragging, originBodyStyle, label, notSlider>>

\* window "mousemove" listener: setValueByEvent with e.type = "mousemove".
\* The listener is native, so its setState({dragging: true}) re-renders at
\* once, before currValue is assigned.
windowMouseMove(x) ==
    /\ "mousemove" \in listeners
    /\ IF ~dragging
       THEN dragging' = TRUE /\ label' = renderLabel(sliderProps, currValue)
       ELSE UNCHANGED <<dragging, label>>
    /\ setValueByEvent(x)
    /\ lastEvent' = "mousemove"
    /\ UNCHANGED <<sliderProps, rect, hovered, originBodyStyle, bodyStyle,
                   listeners, downSinceUp, styleBeforeDown, notSlider>>

restoredBodyStyle ==
    ObjectAssign(bodyStyle,
        ObjectAssign([userSelect |-> "undefined", msUserSelect |-> "undefined",
                      webkitUserSelect |-> "undefined", cursor |-> "undefined"],
                     originBodyStyle))

\* removeListeners leaving the mousemove listener registered
removeListeners_KeepsMove == listeners \ {"mouseup"}

removeListeners == listeners \ {"mousemove", "mouseup"}

handelMouseUp ==
    /\ bodyStyle' = restoredBodyStyle
    /\ dragging' = FALSE
    /\ label' = renderLabel(sliderProps, currValue)
    /\ listeners' = removeListeners
    /\ lastEvent' = IF downSinceUp THEN "mouseup" ELSE "mouseup_nodrag"
    /\ downSinceUp' = FALSE
    /\ onChangeValueCalls' = <<>>
    /\ UNCHANGED <<sliderProps, rect, currValue, valueRatio, hovered,
                   originBodyStyle, lastX, styleBeforeDown, notSlider>>

\* release over the track: React's onMouseUp
trackMouseUp == handelMouseUp

\* release anywhere else: only the window "mouseup" listener sees it
windowMouseUp == "mouseup" \in listeners /\ handelMouseUp

setHovered(h, ev) ==
    /\ hovered' = h
    /\ label' = renderLabel(sliderProps, currValue)
    /\ lastEvent' = ev
    /\ onChangeValueCalls' = <<>>
    /\ UNCHANGED <<sliderProps, rect, currValue, valueRatio, dragging,
                   originBodyStyle, bodyStyle, listeners, lastX, downSinceUp,
                   styleBeforeDown, notSlider>>

handelMouseEnter == setHovered(TRUE, "mouseenter")
handelMouseLeave == setHovered(FALSE, "mouseleave")

\* document.body.style is shared with the rest of the page, which may
\* write it at any time
pageSetsBodyStyle(style) ==
    /\ bodyStyle # style
    /\ bodyStyle' = style
    /\ lastEvent' = "bodystyle"
    /\ onChangeValueCalls' = <<>>
    /\ UNCHANGED <<sliderProps, rect, currValue, valueRatio, hovered, dragging,
                   originBodyStyle, listeners, label, lastX, downSinceUp,
                   styleBeforeDown, notSlider>>

SliderNext ==
    \/ \E x \in Xs : handelMouseDown(x)
    \/ \E x \in Xs : windowMouseMove(x)
    \/ trackMouseUp
    \/ windowMouseUp
    \/ handelMouseEnter
    \/ handelMouseLeave
    \/ \E style \in PageStyles : pageSetsBodyStyle(style)

----------------------------------------------------------------------------
(* CommandBar                                                              *)

CommandBarPropsSet ==
    [expanded : {"undefined", "true", "false"},
     isMinimal : BOOLEAN,
     labelPosition : {"right", "bottom", "collapsed"},
     primaryCommands : {"undefined", "empty", "items"}]

\* JavaScript truthiness of a boolean|undefined value, and of an array|undefined
truthy(v) == v = "true"
given(commands) == commands # "undefined"

\* changedHeight with the minimal branch folded into the general formula
changedHeight_OneFormula(props, expandedNow) ==
    IF truthy(expandedNow) /\ props.labelPosition = "bottom" /\ given(props.primaryCommands)
    THEN 72
    ELSE (IF props.isMinimal THEN 24 ELSE 48)

\* getStyles: changedHeight
changedHeight(props, expandedNow) ==
    LET notChangeHeight == props.labelPosition # "bottom"
        defaultHeight == IF props.isMinimal THEN 24 ELSE 48
        expandedHeight == 72
    IN  IF props.isMinimal
        THEN IF truthy(expandedNow)
             THEN (IF notChangeHeight THEN 48 ELSE 72)
             ELSE defaultHeight
        ELSE IF truthy(expandedNow) /\ ~notChangeHeight /\ given(props.primaryCommands)
             THEN expandedHeight
             ELSE defaultHeight

CommandBarInitWith(props) ==
    /\ commandBarProps = props
    /\ currExpanded = props.expanded
    /\ rootHeight = changedHeight(props, props.expanded)
    /\ setStateCalls = 0
    /\ cbLastOp = [op |-> "init", arg |-> "undefined"]
    /\ cbPrev = [currExpanded |-> props.expanded, expanded |-> props.expanded]

CommandBarInit == \E props \in CommandBarPropsSet : CommandBarInitWith(props)

\* receivedExpanded that ignores an absent expanded prop
receivedExpanded_SkipsUndefined(nextProps) ==
    IF nextProps.expanded # "undefined" /\ currExpanded # nextProps.expanded
    THEN nextProps.expanded
    ELSE currExpanded

\* the state componentWillReceiveProps leaves
receivedExpanded(nextProps) ==
    IF currExpanded # nextProps.expanded THEN nextProps.expanded ELSE currExpanded

\* a parent render: componentWillReceiveProps(nextProps), then render
componentWillReceiveProps(nextProps) ==
    /\ currExpanded' = receivedExpanded(nextProps)
    /\ setStateCalls' = IF currExpanded # nextProps.expanded THEN 1 ELSE 0
    /\ commandBarProps' = nextProps
    /\ rootHeight' = changedHeight(nextProps, currExpanded')
    /\ cbLastOp' = [op |-> "receiveProps", arg |-> nextProps.expanded]
    /\ cbPrev' = [currExpanded |-> currExpanded, expanded |-> commandBarProps.expanded]
    /\ UNCHANGED notCommandBar

\* toggledExpanded that flips whatever the argument
toggledExpanded_AlwaysFlips(arg) == IF truthy(currExpanded) THEN "false" ELSE "true"

\* the state toggleExpanded(arg) leaves; arg is "true"/"false" for a boolean,
\* "undefined" for no argument, "event" for a click event
toggledExpanded(arg) ==
    IF arg \in {"true", "false"}
    THEN (IF arg # currExpanded THEN arg ELSE currExpanded)
    ELSE (IF truthy(currExpanded) THEN "false" ELSE "true")

toggleExpanded(arg) ==
    /\ currExpanded' = toggledExpanded(arg)
    /\ setStateCalls' = IF arg \in {"true", "false"}
                        THEN (IF arg # currExpanded THEN 1 ELSE 0)
                        ELSE 1
    /\ rootHeight' = changedHeight(commandBarProps, currExpanded')
    /\ cbLastOp' = [op |-> "toggle", arg |-> arg]
    /\ cbPrev' = [currExpanded |-> currExpanded, expanded |-> commandBarProps.expanded]
    /\ UNCHANGED <<commandBarProps, notCommandBar>>

CommandBarNext ==
    \/ \E nextProps \in CommandBarPropsSet : componentWillReceiveProps(nextProps)
    \/ \E arg \in {"true", "false", "undefined", "event"} : toggleExpanded(arg)

----------------------------------------------------------------------------
(* Image                                                                   *)

ImagePropsSet ==
    [src : {"undefined", "", "a.png", "b.png"},
     placeholder : {"undefined", "custom"},
     isLazyLoad : BOOLEAN,
     useDivContainer : BOOLEAN]

\* attributes.placeholder || <Placeholder {...attributes} />
placeholderOf(props) ==
    IF props.placeholder # "undefined" THEN "props.placeholder" ELSE "Placeholder"

\* the element ImageOrDiv renders
ImageOrDiv(props) == IF props.useDivContainer THEN "div" ELSE "img"

\* <ReactLazyLoad placeholder=...> around the element
lazyOf(elm) == IF elm = "img" THEN "lazy(img)" ELSE "lazy(div)"

\* render that forgets the failed state
render_IgnoresFailure(props, failed) ==
    IF props.src \in {"undefined", ""}
    THEN (IF props.isLazyLoad THEN placeholderOf(props) ELSE "null")
    ELSE IF props.isLazyLoad
         THEN lazyOf(ImageOrDiv(props))
         ELSE ImageOrDiv(props)

\* render(): the placeholder, "null", the bare element, or the element
\* wrapped in ReactLazyLoad
render(props, failed) ==
    IF props.src \in {"undefined", ""} \/ failed
    THEN (IF props.isLazyLoad THEN placeholderOf(props) ELSE "null")
    ELSE IF props.isLazyLoad
         THEN lazyOf(ImageOrDiv(props))
         ELSE ImageOrDiv(props)

isLazy(out) == out \in {"lazy(img)", "lazy(div)"}

\* an <img onError=...> is in the document
imgMounted ==
    \/ output = "img"
    \/ output = "lazy(img)" /\ lazyVisible

ImageInitWith(props) ==
    /\ imageProps = props
    /\ showEmptyImage = FALSE
    /\ output = render(props, FALSE)
    /\ lazyVisible = FALSE
    /\ imgLastOp = "init"
    /\ failedSrc = "none"

ImageInit == \E props \in ImagePropsSet : ImageInitWith(props)

\* the img element reports a load error
errorHandler ==
    /\ imgMounted
    /\ showEmptyImage' = TRUE
    /\ output' = render(imageProps, TRUE)
    /\ lazyVisible' = FALSE
    /\ imgLastOp' = "error"
    /\ failedSrc' = imageProps.src
    /\ UNCHANGED <<imageProps, notImage>>

\* the parent renders the widget with new props
imageReceivesProps(nextProps) ==
    /\ nextProps # imageProps
    /\ imageProps' = nextProps
    /\ output' = render(nextProps, showEmptyImage)
    /\ lazyVisible' = (lazyVisible /\ isLazy(output) /\ isLazy(output'))
    /\ imgLastOp' = "receiveProps"
    /\ UNCHANGED <<showEmptyImage, failedSrc, notImage>>

\* ReactLazyLoad finds the widget scrolled into view and mounts its child
lazyLoadShows ==
    /\ isLazy(output)
    /\ ~lazyVisible
    /\ lazyVisible' = TRUE
    /\ imgLastOp' = "visible"
    /\ UNCHANGED <<imageProps, showEmptyImage, output, failedSrc, notImage>>

ImageNext ==
    \/ errorHandler
    \/ \E nextProps \in ImagePropsSet : imageReceivesProps(nextProps)
    \/ lazyLoadShows

----------------------------------------------------------------------------
(* Specifications: one widget receives events, the other two are mounted   *)
(* with their default props and left alone.                                *)

SliderDefault ==
    SliderInitWith([minValue |-> 0, maxValue |-> 100, initValue |-> 50,
                    showValueInfo |-> FALSE, numberToFixed |-> 0, unit |-> "%"],
                   [left |-> 1, width |-> 12, controllerWidth |-> 8],
                   [userSelect |-> "", msUserSelect |-> "", webkitUserSelect |-> "", cursor |-> ""])

CommandBarDefault ==
    CommandBarInitWith([expanded |-> "undefined", isMinimal |-> FALSE,
                        labelPosition |-> "bottom", primaryCommands |-> "undefined"])

ImageDefault ==
    ImageInitWith([src |-> "undefined", placeholder |-> "undefined",
                   isLazyLoad |-> TRUE, useDivContainer |-> FALSE])

SliderSpecInit == SliderInit /\ CommandBarDefault /\ ImageDefault
CommandBarSpecInit == CommandBarInit /\ SliderDefault /\ ImageDefault
ImageSpecInit == ImageInit /\ SliderDefault /\ CommandBarDefault

SliderSpec == SliderSpecInit /\ [][SliderNext]_vars
CommandBarSpec == CommandBarSpecInit /\ [][CommandBarNext]_vars
ImageSpec == ImageSpecInit /\ [][ImageNext]_vars

----------------------------------------------------------------------------
(* Properties                                                              *)

IsUp(e) == e \in {"mouseup", "mouseup_nodrag"}
IsValueEvent(e) == e \in {"mousedown", "mousemove"}
TrackLength == rect.width - rect.controllerWidth
Collapsed == IF commandBarProps.isMinimal THEN 24 ELSE 48

\* C1: once the pointer-up that ends a drag has been handled, the body's
\* cursor and text-selection style equal the values they had just before
\* the pointer-down that began the drag.
C1_StyleRestoredToPreDrag ==
    lastEvent = "mouseup" =>
        /\ bodyStyle.cursor = styleBeforeDown.cursor
        /\ bodyStyle.userSelect = styleBeforeDown.userSelect
        /\ bodyStyle.msUserSelect = styleBeforeDown.msUserSelect
        /\ bodyStyle.webkitUserSelect = styleBeforeDown.webkitUserSelect

\* C2: the window listeners are registered together by pointer-down and
\* removed together by pointer-up: none is registered outside a drag
\* session, no pointer-move handler runs after the session's pointer-up,
\* and dragging is false after pointer-up.
C2_ListenersSymmetric ==
    /\ listeners \in {{}, {"mousemove", "mouseup"}}
    /\ (listeners # {} => downSinceUp)
    /\ (lastEvent = "mousedown" => listeners = {"mousemove", "mouseup"})
    /\ (lastEvent = "mousemove" => downSinceUp)
    /\ (dragging => downSinceUp)
    /\ (IsUp(lastEvent) => listeners = {} /\ ~dragging)

C2_Witness ==
    /\ lastEvent = "mouseup"
    /\ listeners = {}
    /\ ~dragging
    /\ lastX > rect.left

\* C3: in every reachable state valueRatio = (currValue - minValue) /
\* (maxValue - minValue), valueRatio is in [0, 1] and currValue is in
\* [minValue, maxValue].
C3_RatioConsistent ==
    /\ valueRatio = RatMul(RatSub(currValue, FromInt(sliderProps.minValue)),
                           <<1, sliderProps.maxValue - sliderProps.minValue>>)
    /\ RatLE(FromInt(0), valueRatio) /\ RatLE(valueRatio, FromInt(1))
    /\ RatLE(FromInt(sliderProps.minValue), currValue)
    /\ RatLE(currValue, FromInt(sliderProps.maxValue))

\* the state a pointer-down or captured pointer-move at lastX leaves
C4_AtPointer ==
    IsValueEvent(lastEvent) =>
        LET off == lastX - rect.left
            span == sliderProps.maxValue - sliderProps.minValue
        IN  /\ (off <= 0 => valueRatio = <<0, 1>>)
            /\ (off >= TrackLength => valueRatio = <<1, 1>>)
            /\ (0 < off /\ off < TrackLength =>
                    valueRatio[1] * TrackLength = off * valueRatio[2])
            /\ currValue[1] * valueRatio[2] =
                   (sliderProps.minValue * valueRatio[2] + span * valueRatio[1]) * currValue[2]
            /\ onChangeValueCalls = <<currValue>>
            /\ (sliderProps.minValue = 0 /\ sliderProps.maxValue = 100
                    /\ 4 * off = TrackLength => onChangeValueCalls = <<FromInt(25)>>)

\* of two value events in a row, the one further right has the larger ratio
C4_Monotonic ==
    IsValueEvent(lastEvent) /\ IsValueEvent(lastEvent') /\ lastX <= lastX'
        => RatLE(valueRatio, valueRatio')

\* C4: a pointer-down or captured pointer-move at x leaves valueRatio 0 when
\* x is at or left of the track start, 1 when x is at or right of the track
\* end and (x - left) / (width - controllerWidth) in between, leaves
\* currValue = minValue + valueRatio * (maxValue - minValue), and calls
\* onChangeValue once, with that currValue (25 for range 0..100 at a quarter
\* of the track); of two such events in a row the one further right has
\* the larger or equal valueRatio.
C4_ValueFromPointer == []C4_AtPointer /\ [][C4_Monotonic]_vars

C4_Witness ==
    /\ lastEvent = "mousedown"
    /\ sliderProps.minValue = 0 /\ sliderProps.maxValue = 100
    /\ 4 * (lastX - rect.left) = TrackLength
    /\ valueRatio = <<1, 4>>
    /\ onChangeValueCalls = <<FromInt(25)>>

\* C5: toggleExpanded without a boolean argument (no argument, or a click
\* event) replaces currExpanded by its negation; with a boolean b it leaves
\* currExpanded = b and calls setState only if currExpanded was not b.
C5_Toggle ==
    cbLastOp.op = "toggle" =>
        IF cbLastOp.arg \in {"true", "false"}
        THEN /\ currExpanded = cbLastOp.arg
             /\ (cbPrev.currExpanded = cbLastOp.arg => setStateCalls = 0)
        ELSE /\ (cbPrev.currExpanded = "true" => currExpanded = "false")
             /\ (cbPrev.currExpanded # "true" => currExpanded = "true")

C5_Witness ==
    /\ cbLastOp = [op |-> "toggle", arg |-> "event"]
    /\ cbPrev.currExpanded = "true"
    /\ currExpanded = "false"

\* C6: currExpanded starts as the expanded prop, and after a prop update that
\* changed the expanded prop it equals the new prop value, whatever was
\* toggled locally before.
C6_PropChangeResyncs ==
    /\ (cbLastOp.op = "init" => currExpanded = commandBarProps.expanded)
    /\ (cbLastOp.op = "receiveProps" /\ cbPrev.expanded # commandBarProps.expanded
            => currExpanded = commandBarProps.expanded)

C6_Witness ==
    /\ cbLastOp.op = "receiveProps"
    /\ cbPrev.expanded # commandBarProps.expanded
    /\ cbPrev.currExpanded # cbPrev.expanded
    /\ cbPrev.currExpanded # commandBarProps.expanded
    /\ currExpanded = commandBarProps.expanded

\* C7: a prop update that carries the same expanded value as before (an
\* absent one included) leaves currExpanded as it was.
C7_SamePropKeepsLocalState ==
    cbLastOp.op = "receiveProps" /\ cbPrev.expanded = commandBarProps.expanded
        => currExpanded = cbPrev.currExpanded

\* C8 as stated: the bar height is one of 24, 48, 72; a collapsed bar is 24
\* high when minimal and 48 otherwise; an expanded bar's height differs
\* from its collapsed height only when labelPosition is "bottom" and
\* primary commands are present.
C8_HeightAsStated ==
    /\ rootHeight \in {24, 48, 72}
    /\ (~truthy(currExpanded) => rootHeight = Collapsed)
    /\ (truthy(currExpanded) /\ rootHeight # Collapsed =>
            commandBarProps.labelPosition = "bottom"
            /\ given(commandBarProps.primaryCommands))

\* C8 amended: the bar height is one of 24, 48, 72; a collapsed bar is 24
\* high when minimal and 48 otherwise; an expanded bar that is not minimal
\* is 72 high when labelPosition is "bottom" and the primaryCommands prop is
\* given, else 48 (its collapsed height); an expanded minimal bar is 72 high
\* when labelPosition is "bottom" and 48 otherwise, with or without primary
\* commands, so never its collapsed height.
C8_HeightTable ==
    /\ rootHeight \in {24, 48, 72}
    /\ (~truthy(currExpanded) => rootHeight = Collapsed)
    /\ (truthy(currExpanded) /\ ~commandBarProps.isMinimal =>
            rootHeight = IF commandBarProps.labelPosition = "bottom"
                            /\ given(commandBarProps.primaryCommands)
                         THEN 72 ELSE 48)
    /\ (truthy(currExpanded) /\ commandBarProps.isMinimal =>
            rootHeight = IF commandBarProps.labelPosition = "bottom" THEN 72 ELSE 48)

C8_Witness ==
    /\ cbLastOp.op = "toggle"
    /\ commandBarProps.isMinimal
    /\ commandBarProps.labelPosition = "right"
    /\ cbPrev.currExpanded = "false"
    /\ currExpanded = "true"
    /\ rootHeight = 48

\* what render returns in the failed state and without a src
C9_FailedOutput ==
    showEmptyImage \/ imageProps.src \in {"undefined", ""} =>
        /\ output = IF imageProps.isLazyLoad
                    THEN (IF imageProps.placeholder = "custom"
                          THEN "props.placeholder" ELSE "Placeholder")
                    ELSE "null"
        /\ output \notin {"img", "div", "lazy(img)", "lazy(div)"}

\* C9: once showEmptyImage is true it stays true, and in every such state
\* render returns the placeholder when isLazyLoad is true and null when it
\* is false, never the image element, which is also what it returns when
\* no src is given.
C9_FailureIsPermanent ==
    [][showEmptyImage => showEmptyImage']_vars /\ []C9_FailedOutput

C9_Witness ==
    /\ showEmptyImage
    /\ imgLastOp = "receiveProps"
    /\ failedSrc = "a.png"
    /\ imageProps.src = "b.png"
    /\ ~imageProps.isLazyLoad
    /\ output = "null"

\* C10: with showValueInfo, after every pointer-down and captured
\* pointer-move the rendered label shows the currValue that event computed,
\* formatted to numberToFixed decimals with the unit appended.
C10_LabelShowsCurrValue ==
    sliderProps.showValueInfo /\ IsValueEvent(lastEvent) =>
        label = toFixedLabel(currValue, sliderProps.numberToFixed, sliderProps.unit)

====
